---- MODULE Spec2Model ----
(***************************************************************************)
(* A model of WebCrawler (src/web_scraper.py): the depth-by-depth crawl    *)
(* loop, the link filter, the fetch wrapper, the content extraction, the   *)
(* CSV export and the command line.  The web is the environment: what a    *)
(* fetch returns, which page it parses to and which anchors the page holds *)
(* are chosen nondeterministically, one anchor per iteration of            *)
(* extract_links' loop.                                                    *)
(***************************************************************************)
EXTENDS Integers, Sequences, FiniteSets, TLC

\* ------------------------------------------------------------------ bounds
\* max_pages is drawn from 1..MaxPages, max_depth from 0..MaxDepth; a page
\* holds at most MaxAnchors anchors.
MaxPages == 4
MaxDepth == 2
MaxAnchors == 2
\* max_queue_size is drawn from 1..MaxQueueSize where the queue cap is studied.
MaxQueueSize == 2
\* max_pages is drawn from 1..MaxExtractPages where the pages' content varies.
MaxExtractPages == 2
\* Where the export separator is studied, a record holds at most MaxHeadings
\* headings of at most MaxTextLen characters each.
MaxHeadings == 2
MaxTextLen == 2
\* export_to_csv is called at most MaxExports times on one crawler.
MaxExports == 2

\* ------------------------------------------------------------------- URLs
\* A URL string is kept as its parts; UrlString lays the parts out in the
\* order of the text.  ext is the last suffix of the path ("" when none).
MkUrl(s, n, p, e, q, f) ==
    [scheme |-> s, netloc |-> n, path |-> p, ext |-> e, query |-> q, fragment |-> f]

Home == MkUrl("http", "example.com", "/", "", "", "")
PdfSeed == MkUrl("http", "example.com", "/doc", ".PDF", "", "")
Malformed == MkUrl("", "", "not a url", "", "", "")

\* The seeds a crawler is configured with.
Seeds == {Home, PdfSeed, Malformed}

\* The href attributes an anchor of a page may carry.  One without scheme and
\* netloc is relative: root-relative when it has a path, a reference into the
\* page itself when it has only a fragment.
Hrefs ==
    { MkUrl("", "", "/a", "", "", ""),
      MkUrl("", "", "", "", "", "top"),
      MkUrl("", "", "/doc", ".PDF", "", ""),
      MkUrl("http", "example.com", "/b", "", "x=1", "top"),
      MkUrl("http", "sub.example.com", "/a", "", "", ""),
      MkUrl("javascript", "", "void(0)", "", "", ""),
      MkUrl("http", "[", "", "", "", "") }

\* The text of a URL, as a sequence of tokens.
UrlString(u) ==
    (IF u.scheme = "" THEN <<>>
     ELSE IF u.scheme = "javascript" THEN <<u.scheme, ":">>
     ELSE <<u.scheme, "://">>)
    \o (IF u.netloc = "" THEN <<>> ELSE <<u.netloc>>)
    \o (IF u.path = "" THEN <<>> ELSE <<u.path>>)
    \o (IF u.ext = "" THEN <<>> ELSE <<u.ext>>)
    \o (IF u.query = "" THEN <<>> ELSE <<"?", u.query>>)
    \o (IF u.fragment = "" THEN <<>> ELSE <<"#", u.fragment>>)

\* str.lower(), token by token.
LowerToken(t) ==
    CASE t = ".PDF" -> ".pdf"
      [] t = ".JPG" -> ".jpg"
      [] OTHER -> t

Lower(s) == [i \in DOMAIN s |-> LowerToken(s[i])]

\* str.endswith(suffix)
EndsWith(s, suffix) ==
    /\ Len(suffix) <= Len(s)
    /\ SubSeq(s, Len(s) - Len(suffix) + 1, Len(s)) = suffix

\* urllib.parse.urlparse(url).netloc
Netloc(u) == u.netloc

\* urllib.parse.urljoin raises ValueError on an unbalanced IPv6 bracket.
UrljoinRaises(href) == href.netloc = "["

\* urllib.parse.urljoin(base_url, href): an href with a scheme is absolute, one
\* with a path replaces the base's path, query and fragment, one without a
\* path keeps the base's path (and its query, when it brings none).
Urljoin(base, href) ==
    IF href.scheme # "" THEN href
    ELSE IF href.path # ""
    THEN [href EXCEPT !.scheme = base.scheme, !.netloc = base.netloc]
    ELSE [base EXCEPT !.query = IF href.query = "" THEN base.query ELSE href.query,
                      !.fragment = href.fragment]

\* absolute_url.split('#')[0] then .split('?')[0]
StripParams(u) == [u EXCEPT !.fragment = "", !.query = ""]

\* validators.url(url): a scheme of the web and a host.
ValidatorsUrl(u) == u.scheme \in {"http", "https"} /\ u.netloc \notin {"", "["}

\* config['ignore_extensions'] as main() sets it.
IgnoreExtensions ==
    {".pdf", ".jpg", ".jpeg", ".png", ".gif", ".svg",
     ".css", ".js", ".mp3", ".mp4", ".zip", ".tar.gz"}

\* any(url.lower().endswith(ext) for ext in ignore_extensions)
EndsWithIgnored(u) ==
    \E e \in IgnoreExtensions : EndsWith(Lower(UrlString(u)), <<e>>)

\* -------------------------------------------------------------- documents
\* What extract_text_elements does to a page, in the order of its code.
ExtractSteps ==
    <<"title", "meta_description", "h1", "h2", "h3_plus", "decompose", "body_text">>

\* Where the extraction of a document may raise ("none": it does not).
RaisePoints ==
    {"none", "title", "meta_description", "h1", "h2", "h3_plus", "body_text"}

\* A page: its title, meta description, headings (a text is a sequence of
\* characters; a heading below h2 carries its level), body text, and the step
\* at which its extraction raises.
PlainDoc ==
    [title |-> "T", meta_description |-> "", h1 |-> <<>>, h2 |-> <<>>,
     hx |-> <<>>, body_text |-> "text", raises_at |-> "none"]

RichDoc(r) ==
    [title |-> "T", meta_description |-> "m",
     h1 |-> << <<"a">>, <<"b", "|">> >>,
     h2 |-> << <<"c">> >>,
     hx |-> << [level |-> 4, text |-> <<"d">>], [level |-> 3, text |-> <<"e">>] >>,
     body_text |-> "text", raises_at |-> r]

Docs == {PlainDoc} \cup {RichDoc(r) : r \in RaisePoints}

\* The elements of a page that extract_text_elements removes from the tree
\* and that can hold anchors.
StrippedRegions == {"nav", "header", "footer", "iframe"}

StepIndex(step) == CHOOSE i \in DOMAIN ExtractSteps : ExtractSteps[i] = step

\* A step is done when the extraction did not raise at it or before it.
StepDone(doc, step) ==
    doc.raises_at = "none" \/ StepIndex(step) < StepIndex(doc.raises_at)

LevelDigit(i) == CASE i = 3 -> "3" [] i = 4 -> "4" [] i = 5 -> "5" [] i = 6 -> "6"

\* f"{tag}: {text}" for the headings of one level, in document order.
TaggedHeadings(doc, i) ==
    LET IsLevel(h) == h.level = i
        hs == SelectSeq(doc.hx, IsLevel)
    IN [k \in DOMAIN hs |-> <<"h", LevelDigit(i), ":", " ">> \o hs[k].text]

\* for i in range(3, 7): the headings h3 to h6, level by level.
H3Plus(doc) ==
    TaggedHeadings(doc, 3) \o TaggedHeadings(doc, 4)
        \o TaggedHeadings(doc, 5) \o TaggedHeadings(doc, 6)

\* extract_text_elements keeping nothing of what it had extracted when it
\* raises.
extract_text_elements_reset(doc, u) ==
    [url |-> u,
     title |-> IF doc.raises_at = "none" THEN doc.title ELSE "",
     meta_description |-> IF doc.raises_at = "none" THEN doc.meta_description ELSE "",
     h1 |-> IF doc.raises_at = "none" THEN doc.h1 ELSE <<>>,
     h2 |-> IF doc.raises_at = "none" THEN doc.h2 ELSE <<>>,
     h3_plus |-> IF doc.raises_at = "none" THEN H3Plus(doc) ELSE <<>>,
     body_text |-> IF doc.raises_at = "none" THEN doc.body_text ELSE "",
     date_crawled |-> "now",
     errors |-> IF doc.raises_at = "none" THEN "" ELSE "Error extracting content"]

\* WebCrawler.extract_text_elements: the record of a page.  Every field starts
\* at its default and is set by its step; the except clause sets errors.
extract_text_elements(doc, u) ==
    [url |-> u,
     title |-> IF StepDone(doc, "title") THEN doc.title ELSE "",
     meta_description |->
        IF StepDone(doc, "meta_description") THEN doc.meta_description ELSE "",
     h1 |-> IF StepDone(doc, "h1") THEN doc.h1 ELSE <<>>,
     h2 |-> IF StepDone(doc, "h2") THEN doc.h2 ELSE <<>>,
     h3_plus |-> IF StepDone(doc, "h3_plus") THEN H3Plus(doc) ELSE <<>>,
     body_text |-> IF StepDone(doc, "body_text") THEN doc.body_text ELSE "",
     date_crawled |-> "now",
     errors |-> IF doc.raises_at = "none" THEN "" ELSE "Error extracting content"]

\* Whether extract_text_elements got to decompose the nav, header, footer,
\* script, style and iframe elements of the tree.
Decomposed(doc) == StepDone(doc, "decompose")

\* ------------------------------------------------------------------ export
\* The separator export_to_csv joins headings with.
Separator == <<" ", "|", " ">>

RECURSIVE Join(_, _)
\* sep.join(xs)
Join(sep, xs) ==
    IF xs = <<>> THEN <<>>
    ELSE IF Len(xs) = 1 THEN xs[1]
    ELSE xs[1] \o sep \o Join(sep, Tail(xs))

\* s.find(sep) counted from 1: where sep first occurs in s, 0 when nowhere.
Find(s, sep) ==
    LET at == {i \in 1..(Len(s) - Len(sep) + 1) : SubSeq(s, i, i + Len(sep) - 1) = sep}
    IN IF at = {} THEN 0 ELSE CHOOSE i \in at : \A j \in at : i <= j

RECURSIVE Split(_, _)
\* s.split(sep)
Split(s, sep) ==
    LET i == Find(s, sep)
    IN IF i = 0 THEN <<s>>
       ELSE <<SubSeq(s, 1, i - 1)>> \o Split(SubSeq(s, i + Len(sep), Len(s)), sep)

\* The headings joined with ", " instead of the export separator.
JoinHeadingsComma(hs) == Join(<<",", " ">>, hs)

\* ' | '.join(item[field])
JoinHeadings(hs) == Join(Separator, hs)

\* The loop body of export_to_csv: the heading lists of a record become strings.
Flatten(item) ==
    [item EXCEPT !.h1 = JoinHeadings(item.h1),
                 !.h2 = JoinHeadings(item.h2),
                 !.h3_plus = JoinHeadings(item.h3_plus)]

\* Iterating a string: its characters, each a string of length one.
Chars(s) == [i \in DOMAIN s |-> <<s[i]>>]

\* ' | '.join(item[field]) when item[field] is a string already
JoinString(s) == Join(Separator, Chars(s))

\* The loop body of export_to_csv on a record whose heading fields an earlier
\* call has turned into strings.
FlattenAgain(item) ==
    [item EXCEPT !.h1 = JoinString(item.h1),
                 !.h2 = JoinString(item.h2),
                 !.h3_plus = JoinString(item.h3_plus)]

\* How the file system can answer export_to_csv.
IoOutcomes == {"ok", "open fails", "write fails"}

\* --------------------------------------------------------------- arguments
DefaultDepth == 3
DefaultMaxPages == 100

\* Command lines: the URL, --depth and --max-pages given (<<v>>) or not (<<>>),
\* and the flags present.
Argv ==
    [url : {Home},
     depth : {<<>>} \cup {<<d>> : d \in 0..MaxDepth},
     max_pages : {<<>>} \cup {<<m>> : m \in 1..MaxPages},
     flags : SUBSET {"--no-domain-restrict", "--selenium", "--breadth-first"}]

\* parse_arguments: the namespace argparse builds, defaults filled in.
parse_arguments(argv) ==
    [url |-> argv.url,
     depth |-> IF argv.depth = <<>> THEN DefaultDepth ELSE argv.depth[1],
     max_pages |-> IF argv.max_pages = <<>> THEN DefaultMaxPages ELSE argv.max_pages[1],
     restrict_domain |-> "--no-domain-restrict" \notin argv.flags,
     selenium |-> "--selenium" \in argv.flags,
     breadth_first |-> "--breadth-first" \in argv.flags]

\* ------------------------------------------------------------------ state
VARIABLES
    config,                 \* the configuration mapping
    domain,                 \* self.domain
    visited_urls,           \* self.visited_urls
    urls_to_visit,          \* self.urls_to_visit
    current_depth,          \* self.current_depth
    data,                   \* self.data
    pc,                     \* where crawl() stands
    urls_at_current_depth,  \* the batch copied at the top of the while loop
    idx,                    \* position of the for loop in the batch
    html_content,           \* what get_page_content returned
    delayed,                \* whether that call slept request_delay
    links,                  \* extract_links' local list
    n_anchors,              \* anchors extract_links has gone through
    absolute_url,           \* extract_links' local of the last anchor
    driver,                 \* the selenium session: "none", "open" or "quit"
    web,                    \* the environment: documents served, where anchors sit
    soup,                   \* the parsed tree of the page being processed
    a_tag,                  \* the anchor of the fetched page extract_links is at
    export,                 \* the last call of export_to_csv
    roundtrip,              \* a heading sequence and what a reader of the file gets
    fetch_log,              \* history: the calls of get_page_content
    found_depth             \* history: the depth each URL was first found at

vars == <<config, domain, visited_urls, urls_to_visit, current_depth, data, pc,
          urls_at_current_depth, idx, html_content, delayed, links, n_anchors,
          absolute_url, driver, web, soup, a_tag, export, roundtrip, fetch_log,
          found_depth>>

None == "None"
NoUrl == MkUrl("", "", "", "", "", "")
NoSoup == [parsed |-> FALSE, doc |-> PlainDoc, decomposed |-> FALSE]
NoAnchor == [href |-> NoUrl, region |-> ""]
\* The last call of export_to_csv: its number, how the file system answered,
\* what it returned and the rows it wrote; whether the heading fields of the
\* records are strings by now; the outcome and rows of the first call.
NoExport ==
    [calls |-> 0, io |-> "", returned |-> None, rows |-> <<>>, joined |-> FALSE,
     first |-> [io |-> "", rows |-> <<>>]]
NoRoundtrip == [headings |-> <<>>, resplit |-> <<>>, split |-> FALSE]

\* The web of the main specifications: plain pages, anchors in the body.
PlainWeb == [docs |-> {PlainDoc}, regions |-> {"body"}]

\* A web with pages of every kind and anchors inside nav elements too.
RichWeb == [docs |-> Docs, regions |-> {"body", "nav"}]

Range(s) == {s[i] : i \in DOMAIN s}

\* The URL the for loop stands at.
url == urls_at_current_depth[idx]

\* WebCrawler.__init__, for a crawler constructed with one of `configs`.
Start(configs, w) ==
    /\ config \in configs
    /\ web = w
    /\ soup = NoSoup
    /\ a_tag = NoAnchor
    /\ export = NoExport
    /\ roundtrip = NoRoundtrip
    /\ domain = Netloc(config.start_url)
    /\ visited_urls = {}
    /\ urls_to_visit = <<config.start_url>>
    /\ current_depth = 0
    /\ data = <<>>
    /\ pc = "while"
    /\ urls_at_current_depth = <<>>
    /\ idx = 0
    /\ html_content = None
    /\ delayed = FALSE
    /\ links = <<>>
    /\ n_anchors = 0
    /\ absolute_url = NoUrl
    /\ driver = IF config.use_selenium THEN "open" ELSE "none"
    /\ fetch_log = <<>>
    /\ found_depth = [u \in {config.start_url} |-> 0]

\* max_queue_size when the configuration does not give it.
DefaultMaxQueueSize == 1000

\* The crawls of the main specification: the seed, the depth and page limits,
\* the domain restriction and the traversal order vary; ignore_url_params,
\* max_queue_size and use_selenium have the defaults the code gives them with
\* config.get.
Init ==
    Start([start_url : Seeds,
           max_depth : 0..MaxDepth,
           max_pages : 1..MaxPages,
           restrict_to_domain : BOOLEAN,
           breadth_first : BOOLEAN,
           ignore_url_params : {TRUE},
           max_queue_size : {DefaultMaxQueueSize},
           use_selenium : {FALSE}],
          PlainWeb)

\* Crawls with a small max_queue_size, with and without selenium, over every
\* host (so that a depth finds more links than the queue keeps).
InitQueue ==
    Start([start_url : {Home},
           max_depth : 0..MaxDepth,
           max_pages : 1..MaxPages,
           restrict_to_domain : {FALSE},
           breadth_first : BOOLEAN,
           ignore_url_params : {TRUE},
           max_queue_size : 1..MaxQueueSize,
           use_selenium : BOOLEAN],
          PlainWeb)

\* Crawls of one site within its domain, in ordered and in shuffled mode, for
\* every depth limit and page budget.
InitLive ==
    Start([start_url : {Home},
           max_depth : 0..MaxDepth,
           max_pages : 1..MaxPages,
           restrict_to_domain : {TRUE},
           breadth_first : BOOLEAN,
           ignore_url_params : {TRUE},
           max_queue_size : {DefaultMaxQueueSize},
           use_selenium : {FALSE}],
          PlainWeb)

\* Crawls of a web with pages of every kind, within the seed's domain and in
\* order.
InitExtract ==
    Start([start_url : {Home},
           max_depth : 0..MaxDepth,
           max_pages : 1..MaxExtractPages,
           restrict_to_domain : {TRUE},
           breadth_first : {TRUE},
           ignore_url_params : {TRUE},
           max_queue_size : {DefaultMaxQueueSize},
           use_selenium : {FALSE}],
          RichWeb)

\* is_valid_url with the domain check left out.
is_valid_url_any_domain(u) == ValidatorsUrl(u) /\ ~EndsWithIgnored(u)

\* WebCrawler.is_valid_url
is_valid_url(u) ==
    /\ ValidatorsUrl(u)
    /\ (config.restrict_to_domain => Netloc(u) = domain)
    /\ ~EndsWithIgnored(u)

\* absolute_url not in self.visited_urls and absolute_url not in self.urls_to_visit
NotSeen(u) == u \notin visited_urls /\ u \notin Range(urls_to_visit)

\* The while condition of crawl().
WhileCondition == urls_to_visit # <<>> /\ current_depth <= config.max_depth

\* The for loop without its visited check.
AlreadyVisitedNever(u) == FALSE

\* if url in self.visited_urls: continue
AlreadyVisited(u) == u \in visited_urls

\* len(self.visited_urls) >= self.config.get('max_pages', float('inf'))
BudgetReached(v) == Cardinality(v) >= config.max_pages

\* The for loop without its content check.
NoContentNever(h) == FALSE

\* if not html_content: continue
NoContent(h) == h = None \/ h = ""

\* The depth test with <= for <.
FollowLinksInclusive == current_depth <= config.max_depth

\* if self.current_depth < self.config.get('max_depth', 3)
FollowLinks == current_depth < config.max_depth

\* What the transport can answer for a URL: a page, an empty body, or an
\* exception (timeout, connection failure, error status, no scheme).
FetchOutcomes(u) ==
    IF u.scheme \in {"http", "https"} THEN {"page", "empty", "exception"}
    ELSE {"exception"}

\* random.shuffle(self.urls_to_visit): every ordering of the list.
Shuffles(q) ==
    {[i \in 1..Len(q) |-> q[p[i]]] : p \in Permutations(1..Len(q))}

\* main: the configuration built from the parsed arguments; what main leaves
\* out is read with the defaults of config.get.
MainConfig(args) ==
    [start_url |-> args.url,
     max_depth |-> args.depth,
     max_pages |-> args.max_pages,
     restrict_to_domain |-> args.restrict_domain,
     use_selenium |-> args.selenium,
     breadth_first |-> args.breadth_first,
     ignore_url_params |-> TRUE,
     max_queue_size |-> DefaultMaxQueueSize]

\* The crawls main() starts, one for each command line.
InitCli == Start({MainConfig(parse_arguments(argv)) : argv \in Argv}, PlainWeb)

\* The texts and the heading sequences a record can hold.
Alphabet == {"a", " ", "|"}
Texts == UNION {[1..n -> Alphabet] : n \in 0..MaxTextLen}
HeadingSeqs == UNION {[1..n -> Texts] : n \in 0..MaxHeadings}

\* A crawler after crawl() has fetched the seed page alone, the page holding
\* any sequence of h1 headings.
InitJoin ==
    /\ config = [start_url |-> Home, max_depth |-> 0, max_pages |-> MaxPages,
                 restrict_to_domain |-> TRUE, breadth_first |-> TRUE,
                 ignore_url_params |-> TRUE, max_queue_size |-> DefaultMaxQueueSize,
                 use_selenium |-> FALSE]
    /\ web = PlainWeb
    /\ domain = Netloc(Home)
    /\ visited_urls = {Home}
    /\ urls_to_visit = <<>>
    /\ current_depth = 1
    /\ \E hs \in HeadingSeqs :
          /\ data = <<[extract_text_elements(PlainDoc, Home) EXCEPT !.h1 = hs]>>
          /\ roundtrip = [headings |-> hs, resplit |-> <<>>, split |-> FALSE]
    /\ pc = "done"
    /\ urls_at_current_depth = <<>>
    /\ idx = 0
    /\ html_content = None
    /\ delayed = FALSE
    /\ links = <<>>
    /\ n_anchors = 0
    /\ absolute_url = NoUrl
    /\ driver = "none"
    /\ soup = [parsed |-> TRUE, doc |-> PlainDoc, decomposed |-> TRUE]
    /\ a_tag = NoAnchor
    /\ export = NoExport
    /\ fetch_log = <<[url |-> Home, depth |-> 0, pass |-> 0, content |-> TRUE]>>
    /\ found_depth = [u \in {Home} |-> 0]

\* The cap keeping the last max_queue entries instead of the first.
CapQueueTail(q) ==
    IF Len(q) > config.max_queue_size
    THEN SubSeq(q, Len(q) - config.max_queue_size + 1, Len(q)) ELSE q

\* self.urls_to_visit[:max_queue] when the list is longer than max_queue
CapQueue(q) ==
    IF Len(q) > config.max_queue_size THEN SubSeq(q, 1, config.max_queue_size) ELSE q

\* ---------------------------------------------------------------- actions
\* The while condition holds: copy the batch and empty the pending list.
StartDepth ==
    /\ pc = "while"
    /\ WhileCondition
    /\ urls_at_current_depth' = urls_to_visit
    /\ urls_to_visit' = <<>>
    /\ idx' = 1
    /\ pc' = "for"
    /\ UNCHANGED <<config, web, roundtrip, export, soup, a_tag,
                   domain, visited_urls, current_depth, data, html_content,
                   delayed, links, n_anchors, absolute_url, driver, fetch_log,
                   found_depth>>

\* The head of the for loop: the end of the batch, the visited check, the
\* marking and the page-budget check.
NextUrl ==
    /\ pc = "for"
    /\ IF idx > Len(urls_at_current_depth)
       THEN /\ pc' = "advance"
            /\ UNCHANGED <<visited_urls, idx>>
       ELSE IF AlreadyVisited(url)
       THEN /\ idx' = idx + 1
            /\ UNCHANGED <<visited_urls, pc>>
       ELSE /\ visited_urls' = visited_urls \cup {url}
            /\ pc' = IF BudgetReached(visited_urls') THEN "advance" ELSE "fetch"
            /\ UNCHANGED idx
    /\ UNCHANGED <<config, web, roundtrip, export, soup, a_tag,
                   domain, urls_to_visit, current_depth, data,
                   urls_at_current_depth, html_content, delayed, links, n_anchors,
                   absolute_url, driver, fetch_log, found_depth>>

\* WebCrawler.get_page_content: the request either raises, and None is
\* returned from the except clause, or answers, and request_delay is slept
\* before the content is returned.
GetPageContent ==
    /\ pc = "fetch"
    /\ \E outcome \in FetchOutcomes(url) :
          LET raised == outcome = "exception"
              text == IF outcome = "page" THEN "<html>" ELSE ""
          IN /\ html_content' = IF raised THEN None ELSE text
             /\ delayed' = ~raised
             /\ fetch_log' = Append(fetch_log,
                    [url |-> url, depth |-> found_depth[url],
                     pass |-> current_depth, content |-> outcome = "page"])
    /\ pc' = "fetched"
    /\ UNCHANGED <<config, web, roundtrip, export, soup, a_tag,
                   domain, visited_urls, urls_to_visit, current_depth, data,
                   urls_at_current_depth, idx, links, n_anchors, absolute_url,
                   driver, found_depth>>

\* After the fetch: skip the URL when there is no content, else parse the page,
\* append its record and, below max_depth, go on to extract its links.
ProcessPage ==
    /\ pc = "fetched"
    /\ IF NoContent(html_content)
       THEN /\ idx' = idx + 1
            /\ pc' = "for"
            /\ UNCHANGED <<data, soup>>
       ELSE /\ \E doc \in web.docs :
                  /\ soup' = [parsed |-> TRUE, doc |-> doc,
                              decomposed |-> Decomposed(doc)]
                  /\ data' = Append(data, extract_text_elements(doc, url))
            /\ IF FollowLinks
               THEN pc' = "links" /\ UNCHANGED idx
               ELSE pc' = "for" /\ idx' = idx + 1
    /\ html_content' = None
    /\ delayed' = FALSE
    /\ UNCHANGED <<config, web, roundtrip, export, a_tag,
                   domain, visited_urls, urls_to_visit, current_depth,
                   urls_at_current_depth, links, n_anchors, absolute_url, driver,
                   fetch_log, found_depth>>

\* One iteration of extract_links' loop, on the next anchor of the page as it
\* was fetched: find_all no longer finds an anchor that sat in an element
\* extract_text_elements has decomposed.
ExtractLink ==
    /\ pc = "links"
    /\ n_anchors < MaxAnchors
    /\ \E href \in Hrefs, region \in web.regions :
          /\ a_tag' = [href |-> href, region |-> region]
          /\ IF region \in StrippedRegions /\ soup.decomposed
             THEN /\ n_anchors' = n_anchors + 1
                  /\ UNCHANGED <<links, absolute_url, pc>>
             ELSE IF UrljoinRaises(href)
             THEN /\ pc' = "raised"
                  /\ UNCHANGED <<links, n_anchors, absolute_url>>
             ELSE LET joined == Urljoin(url, href)
                      u == IF config.ignore_url_params
                           THEN StripParams(joined) ELSE joined
                  IN /\ absolute_url' = u
                     /\ links' = IF is_valid_url(u) /\ NotSeen(u)
                                 THEN Append(links, u) ELSE links
                     /\ n_anchors' = n_anchors + 1
                     /\ UNCHANGED pc
    /\ UNCHANGED <<config, web, roundtrip, export, soup, domain, visited_urls, urls_to_visit,
                   current_depth, data, urls_at_current_depth, idx, html_content,
                   delayed, driver, fetch_log, found_depth>>

\* extract_links returns and crawl() extends the pending list with its result.
ExtendQueue ==
    /\ pc = "links"
    /\ urls_to_visit' = urls_to_visit \o links
    /\ found_depth' = [u \in DOMAIN found_depth \cup Range(links) |->
                          IF u \in DOMAIN found_depth THEN found_depth[u]
                          ELSE found_depth[url] + 1]
    /\ links' = <<>>
    /\ n_anchors' = 0
    /\ absolute_url' = NoUrl
    /\ a_tag' = NoAnchor
    /\ idx' = idx + 1
    /\ pc' = "for"
    /\ UNCHANGED <<config, web, roundtrip, export, soup,
                   domain, visited_urls, current_depth, data,
                   urls_at_current_depth, html_content, delayed, driver, fetch_log>>

\* The depth counter left as it is after a pass.
NextDepthSame(d) == d

\* self.current_depth += 1
NextDepth(d) == d + 1

\* After the batch: the depth counter, the shuffle and the queue cap.
AdvanceDepth ==
    /\ pc = "advance"
    /\ current_depth' = NextDepth(current_depth)
    /\ \E q \in (IF config.breadth_first THEN {urls_to_visit}
                 ELSE Shuffles(urls_to_visit)) :
          urls_to_visit' = CapQueue(q)
    /\ urls_at_current_depth' = <<>>
    /\ idx' = 0
    /\ pc' = "while"
    /\ UNCHANGED <<config, web, roundtrip, export, soup, a_tag,
                   domain, visited_urls, data, html_content, delayed, links,
                   n_anchors, absolute_url, driver, fetch_log, found_depth>>

\* The while condition fails: quit the selenium driver when one was opened.
Finish ==
    /\ pc = "while"
    /\ ~WhileCondition
    /\ driver' = IF config.use_selenium THEN "quit" ELSE driver
    /\ pc' = "done"
    /\ UNCHANGED <<config, web, roundtrip, export, soup, a_tag,
                   domain, visited_urls, urls_to_visit, current_depth, data,
                   urls_at_current_depth, idx, html_content, delayed, links,
                   n_anchors, absolute_url, fetch_log, found_depth>>

\* What export_to_csv returns: it has no return statement but the bare one.
ExportReturn(io) == None

\* WebCrawler.export_to_csv: nothing is done without data; else the file is
\* opened, the heading fields of every record are joined in place, be they
\* lists or the strings an earlier call left, and the rows are written; an
\* exception is logged.
Export ==
    /\ IF data = <<>>
       THEN /\ export' = [export EXCEPT !.calls = export.calls + 1,
                                        !.io = "no data",
                                        !.returned = None,
                                        !.rows = <<>>,
                                        !.first = IF export.calls = 0
                                                  THEN [io |-> "no data", rows |-> <<>>]
                                                  ELSE export.first]
            /\ UNCHANGED data
       ELSE \E io \in IoOutcomes :
               /\ data' = IF io = "open fails" THEN data
                          ELSE [i \in DOMAIN data |->
                                   IF export.joined THEN FlattenAgain(data[i])
                                   ELSE Flatten(data[i])]
               /\ export' = LET rows == IF io = "ok" THEN data' ELSE <<>>
                            IN [calls |-> export.calls + 1, io |-> io,
                                returned |-> ExportReturn(io),
                                rows |-> rows,
                                joined |-> export.joined \/ io # "open fails",
                                first |-> IF export.calls = 0
                                          THEN [io |-> io, rows |-> rows]
                                          ELSE export.first]
    /\ UNCHANGED <<config, web, roundtrip, soup, a_tag, domain, visited_urls,
                   urls_to_visit, current_depth, urls_at_current_depth, idx,
                   html_content, delayed, links, n_anchors, absolute_url, driver,
                   fetch_log, found_depth>>

\* main() calls export_to_csv once crawl() has returned.
ExportToCsv ==
    /\ pc = "done"
    /\ pc' = "exported"
    /\ Export

\* export_to_csv called again on the same crawler, no crawl in between.
ExportAgain ==
    /\ pc = "exported"
    /\ export.calls < MaxExports
    /\ pc' = "exported"
    /\ Export

\* A reader of the written file splits the h1 field of its row on the
\* separator.
SplitField ==
    /\ pc = "exported"
    /\ export.io = "ok"
    /\ ~roundtrip.split
    /\ roundtrip' = [roundtrip EXCEPT !.resplit = Split(export.rows[1].h1, Separator),
                                      !.split = TRUE]
    /\ UNCHANGED <<config, web, export, soup, a_tag, domain, visited_urls,
                   urls_to_visit, current_depth, data, pc, urls_at_current_depth,
                   idx, html_content, delayed, links, n_anchors, absolute_url,
                   driver, fetch_log, found_depth>>

Next ==
    \/ StartDepth
    \/ NextUrl
    \/ GetPageContent
    \/ ProcessPage
    \/ ExtractLink
    \/ ExtendQueue
    \/ AdvanceDepth
    \/ Finish
    \/ ExportToCsv

NextJoin ==
    \/ ExportToCsv
    \/ SplitField

Spec == Init /\ [][Next]_vars

\* crawl() and export_to_csv run to their end: a step that can be taken is
\* taken, the program being sequential and every call it makes returning.
SpecLive == InitLive /\ [][Next]_vars /\ WF_vars(Next)

SpecQueue == InitQueue /\ [][Next]_vars

SpecExtract == InitExtract /\ [][Next]_vars

SpecCli == InitCli /\ [][Next]_vars

SpecJoin == InitJoin /\ [][NextJoin]_vars

NextRepeat ==
    \/ ExportToCsv
    \/ ExportAgain

SpecRepeat == InitJoin /\ [][NextRepeat]_vars

\* ----------------------------------------------------------------- claims
NoDuplicates(q) == \A i, j \in DOMAIN q : q[i] = q[j] => i = j

\* C1: in every reachable state of crawl() the number of URLs in visited_urls
\* is at most max_pages.
VisitedWithinBudget == Cardinality(visited_urls) <= config.max_pages

\* C2: once the visited count has reached max_pages, no URL is added to
\* visited_urls, no new depth pass starts, and the next evaluation of the
\* loop condition ends the crawl.
BudgetExhaustedStopsCrawl ==
    [][Cardinality(visited_urls) >= config.max_pages =>
          /\ visited_urls' = visited_urls
          /\ (pc = "while" => pc' = "done")]_vars

\* C3: during one crawl get_page_content is called at most once for any URL.
FetchedAtMostOnce ==
    \A i, j \in DOMAIN fetch_log : fetch_log[i].url = fetch_log[j].url => i = j

\* C3 witness: in shuffled mode a batch holds the same URL twice, its first
\* occurrence was fetched and the loop has passed the second.
RepeatedUrlSkipped ==
    /\ ~config.breadth_first
    /\ pc = "for"
    /\ \E i, j \in DOMAIN urls_at_current_depth :
          /\ i < j /\ j < idx
          /\ urls_at_current_depth[i] = urls_at_current_depth[j]
          /\ \E k \in DOMAIN fetch_log : fetch_log[k].url = urls_at_current_depth[i]

\* C4: every fetched URL was discovered at a depth <= max_depth (the seed at
\* depth 0, a link first found on a depth-d page at depth d+1) and is fetched
\* in a pass no later than max_depth, and while or after the pass at depth
\* max_depth runs, nothing is enqueued.
FetchedWithinDepth ==
    /\ \A i \in DOMAIN fetch_log :
          /\ fetch_log[i].depth <= fetch_log[i].pass
          /\ fetch_log[i].pass <= config.max_depth
    /\ \A u \in DOMAIN found_depth : found_depth[u] <= config.max_depth
    /\ (/\ current_depth >= config.max_depth
        /\ ~(pc = "while" /\ current_depth = config.max_depth))
          => urls_to_visit = <<>>

\* C4 witness: a page discovered at depth max_depth >= 1 was fetched with
\* content and the for loop has moved on.
DepthLimitPageProcessed ==
    /\ config.max_depth >= 1
    /\ current_depth = config.max_depth
    /\ pc = "for"
    /\ \E i \in DOMAIN fetch_log :
          /\ fetch_log[i].depth = config.max_depth
          /\ fetch_log[i].content

\* C5: in every reachable state no URL is both in visited_urls and in the
\* pending sequence urls_to_visit.
VisitedNotPending ==
    \A i \in DOMAIN urls_to_visit : urls_to_visit[i] \notin visited_urls

\* C6: the sequence extract_links builds for a page holds no URL twice, and
\* neither does the pending sequence urls_to_visit.
NoDuplicateLinks == NoDuplicates(links) /\ NoDuplicates(urls_to_visit)

\* C7: every return of get_page_content, with content or without, comes after
\* a wait of request_delay within that call.
DelayBeforeReturn == pc = "fetched" => delayed

\* C8: when get_page_content returned no content, the URL stays visited, no
\* record is appended, nothing is enqueued, and the for loop goes on with the
\* next URL of the same batch.
FailedFetchSkipsUrl ==
    [][(pc = "fetched" /\ html_content \in {None, ""}) =>
          /\ url \in visited_urls'
          /\ data' = data
          /\ urls_to_visit' = urls_to_visit
          /\ urls_at_current_depth' = urls_at_current_depth
          /\ pc' = "for"
          /\ idx' = idx + 1]_vars

\* C8 witness: a fetch without content was followed by another fetch in the
\* same depth pass.
FailedFetchThenNextFetched ==
    \E i, j \in DOMAIN fetch_log :
        /\ i < j
        /\ ~fetch_log[i].content
        /\ fetch_log[j].pass = fetch_log[i].pass

\* C9: no record in data has a URL that ends, case-insensitively, with an
\* ignored extension, the seed's record included.
NoIgnoredExtensionRecord ==
    \A i \in DOMAIN data : ~EndsWithIgnored(data[i].url)

\* C10: with restrict_to_domain, every record's URL has the seed's netloc, and
\* so has every URL enqueued or fetched.
DomainRestricted ==
    config.restrict_to_domain =>
        /\ \A i \in DOMAIN data : Netloc(data[i].url) = Netloc(config.start_url)
        /\ \A i \in DOMAIN urls_to_visit :
              Netloc(urls_to_visit[i]) = Netloc(config.start_url)
        /\ \A i \in DOMAIN fetch_log :
              Netloc(fetch_log[i].url) = Netloc(config.start_url)

\* C10 witness: with restrict_to_domain, extract_links has just met a well-formed
\* link to a subdomain of the seed's host and left it out.
ForeignLinkRejected ==
    /\ config.restrict_to_domain
    /\ pc = "links"
    /\ ValidatorsUrl(absolute_url)
    /\ Netloc(absolute_url) = "sub.example.com"
    /\ domain = "example.com"
    /\ absolute_url \notin Range(links)

\* C11: at each depth transition the pending sequence becomes the prefix of
\* length min(n, max_queue_size) of the sequence it had after the optional
\* shuffle: at most max_queue_size long, earliest entries kept in order.
QueueCappedToPrefix ==
    [][pc = "advance" =>
          \E q \in (IF config.breadth_first THEN {urls_to_visit}
                    ELSE Shuffles(urls_to_visit)) :
              LET n == Len(q)
                  k == IF n < config.max_queue_size THEN n ELSE config.max_queue_size
              IN /\ urls_to_visit' = [i \in 1..k |-> q[i]]
                 /\ Len(urls_to_visit') <= config.max_queue_size]_vars

\* C11 witness: in ordered mode the cap has just dropped a URL that the pass
\* before had enqueued.
QueueTailDropped ==
    /\ config.breadth_first
    /\ pc = "while"
    /\ Len(urls_to_visit) = config.max_queue_size
    /\ \E u \in DOMAIN found_depth :
          /\ found_depth[u] = current_depth
          /\ u \notin Range(urls_to_visit)
          /\ u \notin visited_urls

\* C12 as stated: with max_depth = 0 the crawl ends with exactly one record,
\* the seed's, and no link enqueued or fetched.
MaxDepthZeroExactlyOneRecord ==
    (config.max_depth = 0 /\ pc = "done") =>
        /\ Len(data) = 1
        /\ data[1].url = config.start_url
        /\ urls_to_visit = <<>>
        /\ \A i \in DOMAIN fetch_log : fetch_log[i].url = config.start_url

\* C12 amended: with max_depth = 0 no link is ever enqueued or fetched, and the
\* crawl ends with the seed's record alone when the seed's fetch returned
\* content, with no record otherwise.
MaxDepthZeroSeedOnly ==
    config.max_depth = 0 =>
        /\ Range(urls_to_visit) \subseteq {config.start_url}
        /\ DOMAIN found_depth = {config.start_url}
        /\ Len(fetch_log) <= 1
        /\ \A i \in DOMAIN fetch_log : fetch_log[i].url = config.start_url
        /\ pc = "done" =>
              IF fetch_log # <<>> /\ fetch_log[1].content
              THEN Len(data) = 1 /\ data[1].url = config.start_url
              ELSE data = <<>>

\* C12 witness: a crawl with max_depth = 0 has ended with the seed's record.
MaxDepthZeroCrawlDone ==
    /\ config.max_depth = 0
    /\ pc = "done"
    /\ Len(data) = 1

\* C13: with use_selenium, the driver is quit on every path by which crawl()
\* stops running, an error escaping the loop included.
DriverReleasedOnExit ==
    (config.use_selenium /\ pc \in {"done", "raised"}) => driver = "quit"

\* C17: a crawler configured with a malformed seed URL never runs: the seed is
\* not added to visited_urls and no fetch is attempted.
MalformedSeedNeverRuns ==
    ~ValidatorsUrl(config.start_url) =>
        /\ pc = "while"
        /\ visited_urls = {}
        /\ fetch_log = <<>>

\* C19: every URL added to visited_urls gets a fetch attempt before the next
\* batch URL is considered: none is marked visited and left unfetched.
MarkedUrlsGetFetched ==
    visited_urls \subseteq
        {fetch_log[i].url : i \in DOMAIN fetch_log}
            \cup (IF pc = "fetch" THEN {url} ELSE {})

\* C14: when extract_text_elements raises part-way, crawl() still appends a
\* record for the URL, holding every field whose step came before the failure
\* and a non-empty errors field, and goes on: to the page's links below
\* max_depth, else to the next URL of the batch.
ExtractionFailureKeepsCrawl ==
    [][(pc = "fetched" /\ ~NoContent(html_content)) =>
          LET d == soup'.doc
              r == data'[Len(data')]
              before(step) == StepIndex(step) < StepIndex(d.raises_at)
          IN /\ Len(data') = Len(data) + 1
             /\ r.url = url
             /\ d.raises_at # "none" =>
                   /\ r.errors # ""
                   /\ \A f \in {"title", "meta_description", "h1", "h2", "body_text"} :
                         before(f) => r[f] = d[f]
                   /\ before("h3_plus") => r.h3_plus = H3Plus(d)
             /\ pc' = IF FollowLinks THEN "links" ELSE "for"
             /\ FollowLinks => idx' = idx
             /\ ~FollowLinks => idx' = idx + 1]_vars

\* C14 witness: the extraction of a page raised after its h1 headings and
\* before its h3-h6 headings, its record is in data, its links were enqueued
\* and the for loop has moved on.
ExtractionFailedCrawlWentOn ==
    /\ pc = "for"
    /\ idx > 1
    /\ data # <<>>
    /\ data[Len(data)].errors # ""
    /\ data[Len(data)].h1 # <<>>
    /\ data[Len(data)].h3_plus = <<>>
    /\ urls_to_visit # <<>>

\* C20: every anchor of the fetched page whose resolved URL passes the
\* filters is offered to the pending sequence, wherever it sits in the page.
EveryAnchorOffered ==
    [][(pc = "links" /\ pc' = "links" /\ a_tag' # a_tag) =>
          LET joined == Urljoin(url, a_tag'.href)
              u == IF config.ignore_url_params THEN StripParams(joined) ELSE joined
          IN (is_valid_url(u) /\ NotSeen(u)) => u \in Range(links')]_vars

\* The crawl was started by a command line holding --breadth-first.
BreadthFirstGiven ==
    \E argv \in Argv : /\ "--breadth-first" \in argv.flags
                       /\ config = MainConfig(parse_arguments(argv))

\* C15: when the command line gives no --breadth-first option, every depth
\* transition leaves the pending sequence in its insertion order (cut to the
\* queue cap), not permuted.
NoOptionKeepsOrder ==
    [][(pc = "advance" /\ ~BreadthFirstGiven)
          => urls_to_visit' = CapQueue(urls_to_visit)]_vars

Contains(s, sub) == Find(s, sub) # 0

\* C16: for every heading sequence, the empty one included, none of whose
\* texts contains the separator, splitting the exported field on the
\* separator gives back the sequence.
JoinSplitRoundTrip ==
    (/\ roundtrip.split
     /\ \A i \in DOMAIN roundtrip.headings :
           ~Contains(roundtrip.headings[i], Separator))
        => roundtrip.resplit = roundtrip.headings

\* C16 as amended: for every non-empty heading sequence none of whose texts
\* contains the character '|', splitting the exported field on the separator
\* gives back the sequence.
JoinSplitRoundTripNonEmpty ==
    (/\ roundtrip.split
     /\ roundtrip.headings # <<>>
     /\ \A i \in DOMAIN roundtrip.headings : "|" \notin Range(roundtrip.headings[i]))
        => roundtrip.resplit = roundtrip.headings

\* C16 witness: a sequence of two headings, one of them the empty text and
\* none holding '|', was exported and split again.
EmptyHeadingRoundTripped ==
    /\ roundtrip.split
    /\ Len(roundtrip.headings) = 2
    /\ roundtrip.headings[1] = <<>>
    /\ roundtrip.headings[2] # <<>>
    /\ "|" \notin Range(roundtrip.headings[2])

\* C18: export_to_csv does not raise, and after an I/O failure it returns a
\* value other than the one it returns after a successful write.
ExportReportsFailure ==
    (pc = "exported" /\ export.io \in {"open fails", "write fails"})
        => export.returned # ExportReturn("ok")

\* C21: crawl() terminates; current_depth goes up by exactly one at the end
\* of each depth pass and changes nowhere else, a pass starts only at a depth
\* <= max_depth, so there are at most max_depth + 1 passes, and current_depth
\* never exceeds max_depth + 1.
CrawlTerminatesWithinDepth ==
    /\ [][/\ pc = "advance" => (current_depth' = current_depth + 1 /\ pc' = "while")
          /\ pc # "advance" => current_depth' = current_depth
          /\ (pc = "while" /\ pc' = "for") => current_depth <= config.max_depth]_vars
    /\ [](current_depth <= config.max_depth + 1)
    /\ [](pc \in {"for", "fetch", "fetched", "links", "advance"}
             => current_depth <= config.max_depth)
    /\ <>(pc \in {"done", "raised"})

\* C21 witness: a crawl with max_depth >= 1 has run max_depth + 1 passes,
\* fetching in more than one of them, and has ended.
AllPassesRun ==
    /\ pc = "done"
    /\ config.max_depth >= 1
    /\ current_depth = config.max_depth + 1
    /\ \E i \in DOMAIN fetch_log : fetch_log[i].pass = config.max_depth

\* C22: when export_to_csv has written the file twice on the same crawler,
\* the second call wrote the rows the first call wrote.
ExportRepeatable ==
    (export.calls = 2 /\ export.first.io = "ok" /\ export.io = "ok")
        => export.rows = export.first.rows

====
